---- MODULE Spec2Model ----
(***************************************************************************)
(* Model of the async flow-control pair of mxweb-utils:                    *)
(*   RateLimiter (src/src/http.ts), Retry (src/src/retry.ts) and the       *)
(*   delay primitive sleep (src/src/get-type-name.ts).                     *)
(*                                                                         *)
(* JavaScript runs to completion between suspension points, so one action  *)
(* of the model is one synchronous run: from a call or the resumption of   *)
(* an await up to the next await.  Time is a logical clock in              *)
(* milliseconds; timers fire when they are due.                            *)
(***************************************************************************)
EXTENDS Integers, Sequences, FiniteSets, TLC

(***************************************************************************)
(* Bounds of the model.                                                    *)
(***************************************************************************)
MaxEntries == 3        \* handle() calls made on the limiter
MaxTime == 2           \* the clock runs freely up to here, then only to a due timer
MaxStep == 1           \* longest single jump of the clock when no timer is nearer
MaxPolicy == 2         \* largest maxRequests / interval / delay configured
MaxRetries == 3        \* largest maxRetries configured
MaxExecutes == 2       \* execute() calls made on the Retry
MaxCancels == 2        \* cancel() calls made on one requestTimeout() handle
MaxSets == 1           \* setOptions() calls made on either object
OptEntries == 2        \* handle() calls made where setOptions() is exercised

(***************************************************************************)
(* JavaScript values that flow through the two components.                 *)
(***************************************************************************)
JsUndefined == [type |-> "undefined", num |-> 0, text |-> ""]
JsNumber(n) == [type |-> "number", num |-> n, text |-> ""]
JsString(s) == [type |-> "string", num |-> 0, text |-> s]
JsError(m) == [type |-> "Error", num |-> 0, text |-> m]

\* mutant: `x ?? d`
OrDefaultNullish(v, d) == IF v.type = "number" THEN v.num ELSE d

\* `x || d` on an option that is a number or undefined
Truthy(v) == v.type = "number" /\ v.num # 0

OrDefault(v, d) == IF Truthy(v) THEN v.num ELSE d

\* promise states
Pending == [st |-> "pending", val |-> JsUndefined]
Fulfilled(v) == [st |-> "fulfilled", val |-> v]
Rejected(e) == [st |-> "rejected", val |-> e]

\* what a unit of work may produce
WorkResults == {JsNumber(42)}
WorkErrors == {JsError("fail"), JsString("String error")}

(***************************************************************************)
(* sleep(ms): setTimeout(resolve, Math.max(ms, 0))                         *)
(***************************************************************************)
\* mutant: the timer is set without its delay
SleepDurationNone(ms) == 0

SleepDuration(ms) == IF ms > 0 THEN ms ELSE 0

(***************************************************************************)
(* RateLimiter                                                             *)
(***************************************************************************)
DEFAULT_DELAY == 1500
DEFAULT_MAX_REQUESTS == 1

IDs == 1..MaxEntries

VARIABLES
  now,            \* Date.now()
  options,        \* this.options
  queues,         \* this.queues: the wrappers pushed by handle(), by entry id
  requestTimes,   \* this.requestTimes
  executing,      \* this.executing
  loops,          \* the activations of queue(): loops[i] is the one made by the i-th handle()
  work,           \* per entry: state of the unit of work
  promise,        \* per entry: state of the promise handle() returned
  calls,          \* per entry: number of times callback() was invoked
  settles,        \* per entry: number of resolve()/reject() calls
  launchLog,      \* the launches so far, in order: [id, t]
  nextId,         \* the next handle() call is the nextId-th
  checks,         \* per entry: what its waitForSlot() call read and decided
  sets,           \* the arguments of the setOptions() calls so far, in order
  nested          \* per entry: the running unit of work that made its handle() call

rlVars == <<now, options, queues, requestTimes, executing, loops, work, promise,
            calls, settles, launchLog, nextId, checks, sets, nested>>

VARIABLES
  rOptions,       \* Retry: this.options
  rpc,            \* where execute() stands: "idle", "attempt", "sleep", "done"
  rLocal,         \* the locals of execute(): delay, maxRetries, attemp, lastError
  rDue,           \* when the timer of `await sleep(delay)` is due
  rOutcome,       \* state of the promise execute() returned
  rCalls,         \* number of times callback() was invoked by this execute()
  rSleeps,        \* number of sleep() calls made by this execute()
  rHistory,       \* how the invocations of this execute() ended, in order
  rRuns,          \* number of execute() calls made so far
  rStarted,       \* when each invocation of this execute() was made
  rEnded,         \* when each invocation of this execute() ended
  rSets           \* the arguments of the setOptions() calls so far, in order

retryVars == <<rOptions, rpc, rLocal, rDue, rOutcome, rCalls, rSleeps, rHistory, rRuns,
               rStarted, rEnded, rSets>>

VARIABLE
  rt              \* requestTimeout(): the returned object rs, its frame and its timer

vars == <<rlVars, retryVars, rt>>

Policies ==
  {[maxRequests |-> JsNumber(m), interval |-> JsNumber(i)] : m \in 1..MaxPolicy, i \in 1..MaxPolicy}

Off == [pc |-> "off", cur |-> 0, wnow |-> 0, due |-> 0]

IntervalNoDefault(o) == IF o.interval.type = "number" THEN o.interval.num ELSE 0

Interval(o) == OrDefault(o.interval, DEFAULT_DELAY)

MaxRequests(o) == OrDefault(o.maxRequests, DEFAULT_MAX_REQUESTS)

PruneNone(times, t, interval) == times

PruneLoose(times, t, interval) == SelectSeq(times, LAMBDA time : time >= t - interval)

\* requestTimes.filter((time) => time > now - interval)
Prune(times, t, interval) == SelectSeq(times, LAMBDA time : time > t - interval)

\* requestTimes.length >= maxRequests
SlotFullAlways(times, maxRequests) == TRUE

SlotFullNever(times, maxRequests) == FALSE

SlotFull(times, maxRequests) == Len(times) >= maxRequests

\* oldRequestTime + interval - now; requestTimes[0] of an empty log is undefined and the
\* delay NaN, which setTimeout takes as no delay
SlotDelayNoInterval(times, t, interval) == IF Len(times) = 0 THEN 0 ELSE times[1] - t

SlotDelayDouble(times, t, interval) ==
  IF Len(times) = 0 THEN 0 ELSE times[1] + 2 * interval - t

SlotDelay(times, t, interval) == IF Len(times) = 0 THEN 0 ELSE times[1] + interval - t

\* setTimeout(resolve, NaN): the timer is due at once or after 1 ms, by the runtime
NaNTimeout == {0, 1}

\* the delays sleep(delay) of waitForSlot() may take
SlotSleeps(times, t, interval) ==
  IF Len(times) = 0 THEN NaNTimeout ELSE {SleepDuration(SlotDelay(times, t, interval))}

NoCheck == [at |-> -1, waited |-> FALSE, size |-> 0, oldest |-> -1,
            interval |-> 0, maxRequests |-> 0, epoch |-> 0]

NoCaller == [by |-> 0, awaited |-> FALSE]

\* mutant: unshift instead of push
EnqueueFront(q, id) == <<id>> \o q

\* this.queues.push(wrapper)
Enqueue(q, id) == Append(q, id)

\* this.queues.shift(): the entry taken and what stays
Front(q) == Head(q)

\* mutant: the front entry is read but not removed
RestPeek(q) == q

Rest(q) == Tail(q)

\* resolve(result) and reject(error) of the wrapper handle() pushes
ResolveWith(result) == Fulfilled(result)

\* mutant: the caught value is wrapped in a new Error
RejectWithWrapped(error) == Rejected(JsError(error.text))

RejectWith(error) == Rejected(error)

\* a promise settles once: later resolve()/reject() calls leave it as it is
Settle(p, outcome) == IF p.st = "pending" THEN outcome ELSE p

\* mutant: the failure escapes the wrapper and ends queue() where it stands
AfterCatchEscapes(l) == Off

\* the wrapper has called reject() in its catch block and returns normally
AfterCatch(l) == [Off EXCEPT !.pc = "loopcheck"]

\* mutant: callback() is not awaited
AwaitWorkNot(l) == [Off EXCEPT !.pc = "loopcheck"]

\* the wrapper is suspended in `await callback()`
AwaitWork(l) == [l EXCEPT !.pc = "running"]

\* waitForSlot() from its call to its first suspension or its return, run by
\* activation L for entry id
WaitForSlot(L, id) ==
  LET interval == Interval(options)
      maxRequests == MaxRequests(options)
      pruned == Prune(requestTimes, now, interval)
  IN  /\ checks' = [checks EXCEPT ![id] =
            [at |-> now, waited |-> SlotFull(pruned, maxRequests), size |-> Len(pruned),
             oldest |-> IF Len(pruned) = 0 THEN -1 ELSE pruned[1],
             interval |-> interval, maxRequests |-> maxRequests, epoch |-> Len(sets)]]
      /\ IF SlotFull(pruned, maxRequests)
         THEN /\ requestTimes' = pruned
              /\ \E d \in SlotSleeps(pruned, now, interval) :
                   loops' = [loops EXCEPT ![L] =
                     [pc |-> "slot", cur |-> id, wnow |-> now, due |-> now + d]]
         ELSE /\ requestTimes' = Append(pruned, now)
              /\ loops' = [loops EXCEPT ![L] = [Off EXCEPT !.pc = "admitted", !.cur = id]]

\* mutant: the flag is cleared as soon as an entry is taken
DrainStepClearsEarly(q, L, ex) ==
  IF Len(q) > 0
  THEN /\ queues' = Rest(q)
       /\ executing' = FALSE
       /\ WaitForSlot(L, Front(q))
  ELSE /\ queues' = q
       /\ executing' = FALSE
       /\ loops' = [loops EXCEPT ![L] = Off]
       /\ UNCHANGED <<requestTimes, checks>>

\* mutant: the flag is not cleared when the loop ends
DrainStepKeepsFlag(q, L, ex) ==
  IF Len(q) > 0
  THEN /\ queues' = Rest(q)
       /\ executing' = ex
       /\ WaitForSlot(L, Front(q))
  ELSE /\ queues' = q
       /\ executing' = ex
       /\ loops' = [loops EXCEPT ![L] = Off]
       /\ UNCHANGED <<requestTimes, checks>>

\* one test of `while (this.queues.length)` by activation L, with q the queue and
\* ex the flag as they are at that point
DrainStep(q, L, ex) ==
  IF Len(q) > 0
  THEN /\ queues' = Rest(q)
       /\ executing' = ex
       /\ WaitForSlot(L, Front(q))
  ELSE /\ queues' = q
       /\ executing' = FALSE
       /\ loops' = [loops EXCEPT ![L] = Off]
       /\ UNCHANGED <<requestTimes, checks>>

\* mutant: no test of the flag
queueNoGuard(q, L) == DrainStep(q, L, TRUE)

\* queue(), called by the L-th handle() with q the queue after its push
queue(q, L) ==
  IF executing
  THEN /\ queues' = q
       /\ UNCHANGED <<executing, requestTimes, loops, checks>>
  ELSE DrainStep(q, L, TRUE)

\* handle(callback): push the wrapper, call queue()
Handle ==
  /\ nextId <= MaxEntries
  /\ queue(Enqueue(queues, nextId), nextId)
  /\ nextId' = nextId + 1
  /\ UNCHANGED <<retryVars, sets, nested, rt>>
  /\ UNCHANGED <<now, options, work, promise, calls, settles, launchLog>>

\* handle() called by the running unit of work k on the same limiter; aw says whether
\* the unit awaits the promise that handle() returns before it settles
NestedHandle(k, aw) ==
  /\ nextId <= MaxEntries
  /\ work[k].st = "running"
  /\ queue(Enqueue(queues, nextId), nextId)
  /\ nextId' = nextId + 1
  /\ nested' = [nested EXCEPT ![nextId] = [by |-> k, awaited |-> aw]]
  /\ UNCHANGED <<retryVars, sets, rt>>
  /\ UNCHANGED <<now, options, work, promise, calls, settles, launchLog>>

StampFresh(l) == now

\* the `now` that requestTimes.push(now) uses after the sleep: the const read when
\* waitForSlot() was called
Stamp(l) == l.wnow

\* the timer of `await sleep(delay)` in waitForSlot() fires: push(now), return
TimerFire(L) ==
  /\ loops[L].pc = "slot"
  /\ now >= loops[L].due
  /\ requestTimes' = Append(requestTimes, Stamp(loops[L]))
  /\ loops' = [loops EXCEPT ![L] = [Off EXCEPT !.pc = "admitted", !.cur = loops[L].cur]]
  /\ UNCHANGED <<retryVars, sets, nested, rt>>
  /\ UNCHANGED <<now, options, queues, executing, work, promise, calls, settles,
                 launchLog, nextId, checks>>

\* `await this.waitForSlot()` resumes: callback() is invoked; it throws, returns a
\* value, or returns a promise still pending
Launch(L) ==
  /\ loops[L].pc = "admitted"
  /\ LET id == loops[L].cur IN
       /\ calls' = [calls EXCEPT ![id] = @ + 1]
       /\ launchLog' = Append(launchLog, [id |-> id, t |-> now])
       /\ \/ \E e \in WorkErrors :
               /\ work' = [work EXCEPT ![id] = Rejected(e)]
               /\ promise' = [promise EXCEPT ![id] = Settle(@, RejectWith(e))]
               /\ settles' = [settles EXCEPT ![id] = @ + 1]
               /\ loops' = [loops EXCEPT ![L] = AfterCatch(@)]
          \/ \E v \in WorkResults :
               /\ work' = [work EXCEPT ![id] = Fulfilled(v)]
               /\ loops' = [loops EXCEPT ![L] = [@ EXCEPT !.pc = "settled"]]
               /\ UNCHANGED <<promise, settles>>
          \/ /\ work' = [work EXCEPT ![id] = [st |-> "running", val |-> JsUndefined]]
             /\ loops' = [loops EXCEPT ![L] = AwaitWork(@)]
             /\ UNCHANGED <<promise, settles>>
  /\ UNCHANGED <<retryVars, sets, nested, rt>>
  /\ UNCHANGED <<now, options, queues, requestTimes, executing, nextId, checks>>

\* the promise a unit of work returned settles
WorkSettle(id) ==
  /\ work[id].st = "running"
  /\ \E outcome \in {Fulfilled(v) : v \in WorkResults} \cup {Rejected(e) : e \in WorkErrors} :
       work' = [work EXCEPT ![id] = outcome]
  /\ loops' = [L \in IDs |->
                 IF loops[L].pc = "running" /\ loops[L].cur = id
                 THEN [loops[L] EXCEPT !.pc = "settled"]
                 ELSE loops[L]]
  /\ UNCHANGED <<retryVars, sets, nested, rt>>
  /\ UNCHANGED <<now, options, queues, requestTimes, executing, promise, calls,
                 settles, launchLog, nextId, checks>>

\* `await callback()` resumes: resolve(result), or the catch block's reject(error)
Deliver(L) ==
  /\ loops[L].pc = "settled"
  /\ LET id == loops[L].cur IN
       /\ settles' = [settles EXCEPT ![id] = @ + 1]
       /\ IF work[id].st = "fulfilled"
          THEN /\ promise' = [promise EXCEPT ![id] = Settle(@, ResolveWith(work[id].val))]
               /\ loops' = [loops EXCEPT ![L] = [Off EXCEPT !.pc = "loopcheck"]]
          ELSE /\ promise' = [promise EXCEPT ![id] = Settle(@, RejectWith(work[id].val))]
               /\ loops' = [loops EXCEPT ![L] = AfterCatch(@)]
  /\ UNCHANGED <<retryVars, sets, nested, rt>>
  /\ UNCHANGED <<now, options, queues, requestTimes, executing, work, calls,
                 launchLog, nextId, checks>>

\* `await callback()` in queue() resumes: the while condition is tested again
LoopNext(L) ==
  /\ loops[L].pc = "loopcheck"
  /\ DrainStep(queues, L, executing)
  /\ UNCHANGED <<retryVars, sets, nested, rt>>
  /\ UNCHANGED <<now, options, work, promise, calls, settles, launchLog, nextId>>

\* a microtask is waiting to run: the clock does not move before it has run
MicrotaskPending == \E L \in IDs : loops[L].pc \in {"admitted", "settled", "loopcheck"}

PendingDues == {loops[L].due : L \in {K \in IDs : loops[K].pc = "slot"}}

\* the clock advances: not past a pending timer, and beyond MaxTime only up to one
Tick ==
  /\ ~MicrotaskPending
  /\ \E t \in (now + 1)..(now + MaxStep) \cup PendingDues :
       /\ t > now
       /\ \A d \in PendingDues : t <= d
       /\ t <= MaxTime \/ t \in PendingDues
       /\ now' = t
  /\ UNCHANGED <<retryVars, sets, nested, rt>>
  /\ UNCHANGED <<options, queues, requestTimes, executing, loops, work, promise,
                 calls, settles, launchLog, nextId, checks>>

(***************************************************************************)
(* Retry                                                                   *)
(***************************************************************************)
RETRY_DEFAULT_DELAY == 1500
DEFAULT_MAX_RETRIES == 1

RetryPolicies ==
  {[maxRetries |-> r, delay |-> d] :
     r \in {JsUndefined} \cup {JsNumber(n) : n \in (-1)..MaxRetries},
     d \in {JsUndefined} \cup {JsNumber(n) : n \in (-1)..MaxPolicy}}

\* what the unit of work given to execute() may produce
RetryResults == {JsString("ok"), JsNumber(7)}
RetryErrors == {JsError("boom"), JsString("fail"), JsNumber(500)}

NoLocals == [delay |-> 0, maxRetries |-> 0, attemp |-> 0, lastError |-> JsUndefined]

Digit == <<"0", "1", "2", "3", "4", "5", "6", "7", "8", "9">>

RECURSIVE NatToString(_)
NatToString(n) == IF n < 10 THEN Digit[n + 1] ELSE NatToString(n \div 10) \o Digit[(n % 10) + 1]

\* String(value), and a number in a template literal
String(v) ==
  CASE v.type = "string" -> v.text
    [] v.type = "number" -> IF v.num < 0 THEN "-" \o NatToString(-v.num) ELSE NatToString(v.num)
    [] v.type = "undefined" -> "undefined"
    [] v.type = "Error" -> "Error: " \o v.text

\* error instanceof Error ? error.message : String(error)
ErrorMessage(error) == IF error.type = "Error" THEN error.text ELSE String(error)

TerminalMessage(maxRetries, error) ==
  "| Mailer Retry > Max retries reached (" \o String(JsNumber(maxRetries)) \o "): "
    \o ErrorMessage(error)

\* mutant: gives up one attempt early
IsFinalAttemptEarly(attemp, maxRetries) == attemp + 1 >= maxRetries

\* mutant: the limit is read from this.options at every failure
IsFinalAttemptLive(attemp, maxRetries) ==
  attemp = (IF Truthy(rOptions.maxRetries) THEN rOptions.maxRetries.num ELSE 1)

\* attemp === maxRetries
IsFinalAttempt(attemp, maxRetries) == attemp = maxRetries

\* callback() is invoked
Invoke ==
  /\ rCalls' = rCalls + 1
  /\ rpc' = "attempt"
  /\ rStarted' = Append(rStarted, now)

\* mutant: the result is kept but the loop goes on to its next iteration
OnResolvedContinues(v) ==
  /\ rLocal' = [rLocal EXCEPT !.attemp = @ + 1]
  /\ IF rLocal.attemp + 1 <= rLocal.maxRetries
     THEN Invoke /\ UNCHANGED rOutcome
     ELSE rpc' = "done" /\ rOutcome' = Fulfilled(v) /\ UNCHANGED <<rCalls, rStarted>>
  /\ UNCHANGED <<rDue, rSleeps>>

\* `return await callback()` with the attempt fulfilled
OnResolved(v) ==
  /\ rpc' = "done"
  /\ rOutcome' = Fulfilled(v)
  /\ UNCHANGED <<rLocal, rDue, rCalls, rSleeps, rStarted>>

\* the catch block, with the attempt failed with error
OnRejected(error) ==
  /\ rLocal' = [rLocal EXCEPT !.lastError = error]
  /\ IF IsFinalAttempt(rLocal.attemp, rLocal.maxRetries)
     THEN /\ rpc' = "done"
          /\ rOutcome' = Rejected(JsError(TerminalMessage(rLocal.maxRetries, error)))
          /\ UNCHANGED <<rDue, rSleeps>>
     ELSE /\ rpc' = "sleep"
          /\ rDue' = now + SleepDuration(rLocal.delay)
          /\ rSleeps' = rSleeps + 1
          /\ UNCHANGED rOutcome
  /\ UNCHANGED <<rCalls, rStarted>>

\* execute(callback) from its call to the first await
RetryExecute ==
  /\ rpc \in {"idle", "done"}
  /\ rRuns < MaxExecutes
  /\ rRuns' = rRuns + 1
  /\ rHistory' = <<>>
  /\ rSleeps' = 0
  /\ rDue' = 0
  /\ LET delay == OrDefault(rOptions.delay, RETRY_DEFAULT_DELAY)
         maxRetries == OrDefault(rOptions.maxRetries, DEFAULT_MAX_RETRIES)
     IN  /\ rLocal' = [delay |-> delay, maxRetries |-> maxRetries, attemp |-> 1,
                       lastError |-> JsUndefined]
         /\ IF 1 <= maxRetries
            THEN /\ rCalls' = 1
                 /\ rpc' = "attempt"
                 /\ rOutcome' = Pending
                 /\ rStarted' = <<now>>
            ELSE /\ rCalls' = 0
                 /\ rpc' = "done"
                 /\ rOutcome' = Rejected(JsUndefined)
                 /\ rStarted' = <<>>
  /\ rEnded' = <<>>
  /\ UNCHANGED <<rOptions, rSets>>
  /\ UNCHANGED <<rlVars, rt>>

\* the attempt under way ends: callback() threw, or what it returned settles
RetryAttemptSettle ==
  /\ rpc = "attempt"
  /\ \/ \E v \in RetryResults :
          /\ rHistory' = Append(rHistory, Fulfilled(v))
          /\ OnResolved(v)
     \/ \E e \in RetryErrors :
          /\ rHistory' = Append(rHistory, Rejected(e))
          /\ OnRejected(e)
  /\ rEnded' = Append(rEnded, now)
  /\ UNCHANGED <<rOptions, rRuns, rSets>>
  /\ UNCHANGED <<rlVars, rt>>

\* the timer of `await sleep(delay)` fires: attemp++, the loop condition, next attempt
RetryTimerFire ==
  /\ rpc = "sleep"
  /\ now >= rDue
  /\ rLocal' = [rLocal EXCEPT !.attemp = @ + 1]
  /\ IF rLocal.attemp + 1 <= rLocal.maxRetries
     THEN Invoke /\ UNCHANGED rOutcome
     ELSE rpc' = "done" /\ rOutcome' = Rejected(rLocal.lastError)
          /\ UNCHANGED <<rCalls, rStarted>>
  /\ UNCHANGED <<rOptions, rDue, rSleeps, rHistory, rRuns, rEnded, rSets>>
  /\ UNCHANGED <<rlVars, rt>>

\* the clock advances while execute() is suspended: not past its timer, and beyond
\* MaxTime only up to it
RetryTick ==
  /\ rpc \in {"attempt", "sleep"}
  /\ \E t \in (now + 1)..(now + MaxStep) \cup {rDue} :
       /\ t > now
       /\ rpc = "sleep" => t <= rDue
       /\ t <= MaxTime \/ (rpc = "sleep" /\ t = rDue)
       /\ now' = t
  /\ UNCHANGED <<options, queues, requestTimes, executing, loops, work, promise,
                 calls, settles, launchLog, nextId, checks, sets, nested>>
  /\ UNCHANGED <<retryVars, rt>>

(***************************************************************************)
(* requestTimeout                                                          *)
(***************************************************************************)
\* rs before requestTimeout() is called; rid and sid are 0 for null; raf says whether
\* requestAnimationFrame and cancelAnimationFrame exist
NoTimeout ==
  [pc |-> "unset", raf |-> FALSE, timeout |-> 0, rid |-> 0, sid |-> 0,
   frame |-> "none", timer |-> "none", due |-> 0, calls |-> 0, cancels |-> 0,
   early |-> FALSE]

\* the ms argument
TimeoutArgs == {JsUndefined} \cup {JsNumber(n) : n \in (-1)..MaxPolicy}

\* Math.max(ms ?? 0, 0)
TimeoutOf(ms) ==
  LET v == IF ms.type = "undefined" THEN 0 ELSE ms.num
  IN  IF v > 0 THEN v ELSE 0

\* mutant: the inner timer is not cleared
CancelEffectFrameOnly(t) ==
  IF t.rid # 0 /\ t.raf /\ t.frame = "pending" THEN [t EXCEPT !.frame = "cancelled"] ELSE t

\* rs.cancel(): cancelAnimationFrame(rs.rid) and clearTimeout(rs.sid), each only for
\* an id that was set; cancelling what has fired or was cancelled does nothing
CancelEffect(t) ==
  LET a == IF t.rid # 0 /\ t.raf /\ t.frame = "pending"
           THEN [t EXCEPT !.frame = "cancelled"]
           ELSE t
  IN  IF a.sid # 0 /\ a.timer = "pending" THEN [a EXCEPT !.timer = "cleared"] ELSE a

\* requestTimeout(callback, ms)
RequestTimeout ==
  /\ rt.pc = "unset"
  /\ \E ms \in TimeoutArgs :
       rt' = IF rt.raf
             THEN [rt EXCEPT !.pc = "set", !.timeout = TimeoutOf(ms), !.rid = 1,
                             !.frame = "pending"]
             ELSE [rt EXCEPT !.pc = "set", !.timeout = TimeoutOf(ms), !.sid = 1,
                             !.timer = "pending", !.due = now + TimeoutOf(ms)]
  /\ UNCHANGED <<rlVars, retryVars>>

\* the animation frame callback: rs.sid = setTimeout(fn, timeout)
FrameFire ==
  /\ rt.frame = "pending"
  /\ rt' = [rt EXCEPT !.frame = "fired", !.sid = 1, !.timer = "pending",
                      !.due = now + rt.timeout]
  /\ UNCHANGED <<rlVars, retryVars>>

\* fn(): callback(), then rs.cancel() unless callback() threw
TimeoutFire ==
  /\ rt.timer = "pending"
  /\ now >= rt.due
  /\ LET called == [rt EXCEPT !.timer = "fired", !.calls = @ + 1]
     IN  \E threw \in BOOLEAN : rt' = IF threw THEN called ELSE CancelEffect(called)
  /\ UNCHANGED <<rlVars, retryVars>>

\* the caller calls rs.cancel()
CancelCall ==
  /\ rt.pc = "set"
  /\ rt.cancels < MaxCancels
  /\ rt' = [CancelEffect(rt) EXCEPT !.cancels = @ + 1, !.early = @ \/ rt.calls = 0]
  /\ UNCHANGED <<rlVars, retryVars>>

\* the clock advances: not past the pending timer
TimeoutTick ==
  /\ rt.pc = "set"
  /\ \E t \in (now + 1)..(now + MaxStep) \cup {rt.due} :
       /\ t > now
       /\ rt.timer = "pending" => t <= rt.due
       /\ t <= MaxTime \/ (rt.timer = "pending" /\ t = rt.due)
       /\ now' = t
  /\ UNCHANGED <<options, queues, requestTimes, executing, loops, work, promise,
                 calls, settles, launchLog, nextId, checks, sets, nested>>
  /\ UNCHANGED <<retryVars, rt>>

InitLimiter(policies) ==
  /\ now = 0
  /\ options \in policies
  /\ queues = <<>>
  /\ requestTimes = <<>>
  /\ executing = FALSE
  /\ loops = [L \in IDs |-> Off]
  /\ work = [id \in IDs |-> [st |-> "idle", val |-> JsUndefined]]
  /\ promise = [id \in IDs |-> Pending]
  /\ calls = [id \in IDs |-> 0]
  /\ settles = [id \in IDs |-> 0]
  /\ launchLog = <<>>
  /\ nextId = 1
  /\ checks = [id \in IDs |-> NoCheck]
  /\ sets = <<>>
  /\ nested = [id \in IDs |-> NoCaller]

InitRetry(policies) ==
  /\ rOptions \in policies
  /\ rpc = "idle"
  /\ rLocal = NoLocals
  /\ rDue = 0
  /\ rOutcome = Pending
  /\ rCalls = 0
  /\ rSleeps = 0
  /\ rHistory = <<>>
  /\ rRuns = 0
  /\ rStarted = <<>>
  /\ rEnded = <<>>
  /\ rSets = <<>>

Init ==
  /\ InitLimiter(Policies)
  /\ InitRetry({[maxRetries |-> JsUndefined, delay |-> JsUndefined]})
  /\ rt = NoTimeout

Next ==
  \/ Handle
  \/ \E L \in IDs : TimerFire(L)
  \/ \E L \in IDs : Launch(L)
  \/ \E id \in IDs : WorkSettle(id)
  \/ \E L \in IDs : Deliver(L)
  \/ \E L \in IDs : LoopNext(L)
  \/ Tick

Spec == Init /\ [][Next]_vars

RetryInit ==
  /\ InitLimiter({[maxRequests |-> JsUndefined, interval |-> JsUndefined]})
  /\ InitRetry(RetryPolicies)
  /\ rt = NoTimeout

RetryNext ==
  \/ RetryExecute
  \/ RetryAttemptSettle
  \/ RetryTimerFire
  \/ RetryTick

RetrySpec == RetryInit /\ [][RetryNext]_vars

(***************************************************************************)
(* A batch: handle() calls made together on a fresh limiter, with units of *)
(* work that take no time                                                  *)
(***************************************************************************)
NoWorkRunning == \A id \in IDs : work[id].st # "running"

BatchNext ==
  \/ now = 0 /\ launchLog = <<>> /\ Handle
  \/ \E L \in IDs : TimerFire(L)
  \/ \E L \in IDs : Launch(L)
  \/ \E id \in IDs : WorkSettle(id)
  \/ \E L \in IDs : Deliver(L)
  \/ \E L \in IDs : LoopNext(L)
  \/ NoWorkRunning /\ Tick

BatchSpec == Init /\ [][BatchNext]_vars

(***************************************************************************)
(* Re-entrant handle(): units of work that call handle() on their limiter  *)
(***************************************************************************)
\* the promises the unit of work id awaits before it settles
AwaitedBy(id) == {j \in IDs : nested[j].by = id /\ nested[j].awaited}

ReentrantPolicies == {p \in Policies : p.interval.num = 1}

ReentrantInit ==
  /\ InitLimiter(ReentrantPolicies)
  /\ InitRetry({[maxRetries |-> JsUndefined, delay |-> JsUndefined]})
  /\ rt = NoTimeout

ReentrantNext ==
  \/ Handle
  \/ \E k \in IDs, aw \in BOOLEAN : NestedHandle(k, aw)
  \/ \E L \in IDs : TimerFire(L)
  \/ \E L \in IDs : Launch(L)
  \/ \E id \in IDs : (\A j \in AwaitedBy(id) : promise[j].st # "pending") /\ WorkSettle(id)
  \/ \E L \in IDs : Deliver(L)
  \/ \E L \in IDs : LoopNext(L)
  \/ Tick

ReentrantSpec == ReentrantInit /\ [][ReentrantNext]_vars

(***************************************************************************)
(* setOptions                                                              *)
(***************************************************************************)
NewOptionsMerged(old, p) ==
  [f \in DOMAIN old |-> IF p[f].type = "undefined" THEN old[f] ELSE p[f]]

NewOptionsIgnored(old, p) == old

\* this.options = options
NewOptions(old, p) == p

NoOptions == [maxRequests |-> JsUndefined, interval |-> JsUndefined]

ExplicitDefaults ==
  [maxRequests |-> JsNumber(DEFAULT_MAX_REQUESTS), interval |-> JsNumber(DEFAULT_DELAY)]

\* the policies a limiter is built with where setOptions() is exercised
OptionsPolicies ==
  {NoOptions, ExplicitDefaults, [maxRequests |-> JsNumber(1), interval |-> JsNumber(2)]}

\* the arguments of RateLimiter.setOptions(): policies with one field absent
SetArgs ==
  {[maxRequests |-> JsNumber(2), interval |-> JsUndefined],
   [maxRequests |-> JsUndefined, interval |-> JsNumber(1)]}

\* RateLimiter.setOptions(options)
SetOptions ==
  /\ Len(sets) < MaxSets
  /\ \E p \in SetArgs :
       /\ options' = NewOptions(options, p)
       /\ sets' = Append(sets, p)
  /\ UNCHANGED <<now, queues, requestTimes, executing, loops, work, promise, calls,
                 settles, launchLog, nextId, checks, nested>>
  /\ UNCHANGED <<retryVars, rt>>

NoRetryOptions == [maxRetries |-> JsUndefined, delay |-> JsUndefined]

ExplicitRetryDefaults ==
  [maxRetries |-> JsNumber(DEFAULT_MAX_RETRIES), delay |-> JsNumber(RETRY_DEFAULT_DELAY)]

RetryOptionsPolicies ==
  {NoRetryOptions, ExplicitRetryDefaults, [maxRetries |-> JsNumber(2), delay |-> JsNumber(2)]}

\* the arguments of Retry.setOptions(): options with one field absent
RetrySetArgs ==
  {[maxRetries |-> JsNumber(2), delay |-> JsUndefined],
   [maxRetries |-> JsUndefined, delay |-> JsNumber(1)]}

\* Retry.setOptions(options)
RetrySetOptions ==
  /\ Len(rSets) < MaxSets
  /\ \E p \in RetrySetArgs :
       /\ rOptions' = NewOptions(rOptions, p)
       /\ rSets' = Append(rSets, p)
  /\ UNCHANGED <<rpc, rLocal, rDue, rOutcome, rCalls, rSleeps, rHistory, rRuns,
                 rStarted, rEnded>>
  /\ UNCHANGED <<rlVars, rt>>

OptionsInit ==
  \/ InitLimiter(OptionsPolicies) /\ InitRetry({NoRetryOptions}) /\ rt = NoTimeout
  \/ InitLimiter({NoOptions}) /\ InitRetry(RetryOptionsPolicies) /\ rt = NoTimeout

LimiterUnused == nextId = 1 /\ sets = <<>>

RetryUnused == rRuns = 0 /\ rSets = <<>>

\* the two objects share no state: a run exercises one of them; the units of work
\* given to the limiter here are ones that resolve
OptionsNext ==
  \/ RetryUnused /\ nextId <= OptEntries /\ Handle
  \/ RetryUnused /\ \E L \in IDs : TimerFire(L)
  \/ RetryUnused /\ \E L \in IDs : Launch(L)
  \/ RetryUnused /\ \E id \in IDs : WorkSettle(id) /\ work'[id].st = "fulfilled"
  \/ RetryUnused /\ \E L \in IDs : Deliver(L)
  \/ RetryUnused /\ \E L \in IDs : LoopNext(L)
  \/ RetryUnused /\ Tick
  \/ RetryUnused /\ SetOptions
  \/ LimiterUnused /\ RetryExecute
  \/ LimiterUnused /\ RetryAttemptSettle
  \/ LimiterUnused /\ RetryTimerFire
  \/ LimiterUnused /\ RetryTick
  \/ LimiterUnused /\ RetrySetOptions

OptionsSpec == OptionsInit /\ [][OptionsNext]_vars

TimeoutInit ==
  /\ InitLimiter({[maxRequests |-> JsUndefined, interval |-> JsUndefined]})
  /\ InitRetry({[maxRetries |-> JsUndefined, delay |-> JsUndefined]})
  /\ rt \in {[NoTimeout EXCEPT !.raf = b] : b \in BOOLEAN}

TimeoutNext ==
  \/ RequestTimeout
  \/ FrameFire
  \/ TimeoutFire
  \/ CancelCall
  \/ TimeoutTick

TimeoutSpec == TimeoutInit /\ [][TimeoutNext]_vars

\* policies whose maxRequests is omitted, zero, negative or one
ClampPolicies ==
  {[maxRequests |-> m, interval |-> JsNumber(i)] :
     m \in {JsUndefined, JsNumber(0), JsNumber(-1), JsNumber(1)}, i \in 1..MaxPolicy}

ClampInit ==
  /\ InitLimiter(ClampPolicies)
  /\ InitRetry({[maxRetries |-> JsUndefined, delay |-> JsUndefined]})
  /\ rt = NoTimeout

ClampSpec == ClampInit /\ [][Next]_vars

\* what the event loop owes: due timers fire, microtasks run, launched units of work
\* settle
Progress ==
  \/ \E L \in IDs : TimerFire(L) \/ Launch(L) \/ Deliver(L) \/ LoopNext(L)
  \/ \E id \in IDs : WorkSettle(id)

\* the event loop keeps running and the clock keeps advancing
FairSpec == Spec /\ WF_vars(Progress) /\ WF_vars(Tick)

(***************************************************************************)
(* Vocabulary of the properties                                            *)
(***************************************************************************)
Range(q) == {q[k] : k \in DOMAIN q}

Submitted(id) == id < nextId

Dequeued(id) == Submitted(id) /\ id \notin Range(queues)

Launched(id) == \E k \in DOMAIN launchLog : launchLog[k].id = id

WorkSettled(id) == work[id].st \in {"fulfilled", "rejected"}

ActiveLoops == {L \in IDs : loops[L].pc # "off"}

Quiescent == ActiveLoops = {}

LaunchesIn(from, to) == {k \in DOMAIN launchLog : from <= launchLog[k].t /\ launchLog[k].t < to}

(***************************************************************************)
(* Properties of the RateLimiter                                           *)
(***************************************************************************)

\* C1: under a fixed policy (maxRequests = m >= 1, interval = I), every window of
\* length I holds at most m launches.  A window that holds the most launches can be
\* taken to begin at a launch.
AdmissionBound ==
  \A k \in DOMAIN launchLog :
    Cardinality(LaunchesIn(launchLog[k].t, launchLog[k].t + Interval(options)))
      <= MaxRequests(options)

\* C2: units of work are launched in the order handle() was called (entry ids count
\* the handle() calls), none before an entry submitted earlier, and the queue holds
\* the entries not yet taken in that order.
FifoOrder ==
  /\ \A i, j \in DOMAIN launchLog : i < j => launchLog[i].id < launchLog[j].id
  /\ \A a, b \in IDs : a < b /\ Dequeued(b) => Dequeued(a)
  /\ \A a, b \in IDs : a < b /\ Launched(b) => Launched(a)
  /\ \A i, j \in DOMAIN queues : i < j => queues[i] < queues[j]

FifoOrderWitness ==
  /\ Len(launchLog) >= 3
  /\ launchLog[1].t < launchLog[3].t

\* C3: once an entry has failed, the limiter is never left with the flag set and no
\* drain loop, and when the loop has ended every entry submitted so far, those after
\* the failed one included, has been launched and settled with its own outcome.
ErrorIsolation ==
  \A f \in IDs :
    promise[f].st = "rejected" \/ work[f].st = "rejected" =>
      /\ executing => ~Quiescent
      /\ Quiescent =>
           /\ queues = <<>>
           /\ \A id \in IDs : Submitted(id) =>
                Launched(id) /\ promise[id].st # "pending" /\ promise[id] = work[id]

ErrorIsolationWitness ==
  /\ Quiescent
  /\ work[1].st = "rejected"
  /\ promise[2].st = "fulfilled"
  /\ promise[3].st = "rejected"

\* C4: the promise of an entry is settled by at most one resolve()/reject() call, and
\* then holds the outcome of the entry's own unit of work: its value, or the very
\* error value it threw or rejected with.
ResultRouting ==
  \A id \in IDs :
    /\ settles[id] <= 1
    /\ settles[id] = 1 <=> promise[id].st # "pending"
    /\ promise[id].st # "pending" => promise[id] = work[id]

ResultRoutingWitness ==
  /\ promise[1] = Rejected(JsString("String error"))
  /\ promise[2] = Fulfilled(JsNumber(42))
  /\ promise[3] = Rejected(JsError("fail"))

\* C5: every entry submitted is eventually dequeued, launched and its promise settled:
\* at any time, a time comes when this is so of every entry submitted until then.
EverySubmittedSettles ==
  []<>(\A id \in IDs :
         Submitted(id) => Dequeued(id) /\ Launched(id) /\ promise[id].st # "pending")

\* an entry submitted between the last entry's completion and the loop's next test of
\* the queue; and an entry submitted after the loop had ended
SubmittedAtLoopEndWitness ==
  \E L \in IDs : loops[L].pc = "loopcheck" /\ Len(queues) = 1 /\ Len(launchLog) = nextId - 2

\* C6: no unit of work is invoked twice, none is skipped once the loop has ended, and
\* an invoked entry is no longer in the queue.
ExactlyOnce ==
  \A id \in IDs :
    /\ calls[id] <= 1
    /\ calls[id] >= 1 => Dequeued(id)
    /\ Quiescent /\ Submitted(id) => calls[id] = 1

ExactlyOnceWitness ==
  /\ Quiescent
  /\ nextId > MaxEntries
  /\ work[1].st = "rejected"
  /\ work[2].st = "fulfilled"

\* C7: at most one drain loop is active.
SingleDrainLoop == Cardinality(ActiveLoops) <= 1

\* handle() called while the loop is suspended in an admission delay, and while it
\* awaits a unit of work
SingleDrainLoopWitness ==
  /\ \E L \in IDs : loops[L].pc = "slot" /\ Len(queues) >= 1
  /\ nextId > 3

\* C8: of the entries taken from the queue, at most one has a unit of work that has
\* not settled.
SerialisedCompletion ==
  Cardinality({id \in IDs : Dequeued(id) /\ ~WorkSettled(id)}) <= 1

\* the window has capacity for two, one unit of work runs, the next entry waits
SerialisedCompletionWitness ==
  /\ MaxRequests(options) >= 2
  /\ work[1].st = "running"
  /\ Len(queues) >= 1
  /\ Len(requestTimes) = 1

(***************************************************************************)
(* Properties of Retry                                                     *)
(***************************************************************************)
Contains(s, sub) == \E k \in 1..(Len(s) - Len(sub) + 1) : SubSeq(s, k, k + Len(sub) - 1) = sub

ConfiguredRetries == IF rOptions.maxRetries.type = "number" THEN rOptions.maxRetries.num ELSE 0

AllAttemptsFailed == \A k \in DOMAIN rHistory : rHistory[k].st = "rejected"

\* C9: when the k-th invocation is the first to succeed, 1 <= k <= maxRetries, it is
\* the last invocation, execute() has resolved with its result after exactly k
\* invocations and k - 1 delays, and no invocation or delay follows.
RetrySuccessShortCircuit ==
  \A k \in DOMAIN rHistory :
    rHistory[k].st = "fulfilled" /\ k <= ConfiguredRetries =>
      /\ k = Len(rHistory)
      /\ rCalls = k
      /\ rSleeps = k - 1
      /\ rpc = "done"
      /\ rOutcome = Fulfilled(rHistory[k].val)

RetrySuccessWitness ==
  /\ Len(rHistory) = 3
  /\ rHistory[2].st = "rejected"
  /\ rOutcome = Fulfilled(JsString("ok"))

\* C10: with maxRetries a positive integer m and every invocation failing, execute()
\* stays pending through the first m - 1 failures and rejects at the m-th, after
\* exactly m invocations, with an Error whose message contains m in decimal and the
\* text of the last failure (message of an Error, String(value) of anything else).
RetryExhaustion ==
  LET m == ConfiguredRetries IN
  m >= 1 /\ AllAttemptsFailed /\ rRuns >= 1 =>
    /\ rCalls <= m
    /\ Len(rHistory) < m => rOutcome = Pending
    /\ Len(rHistory) = m =>
         LET last == rHistory[m].val IN
         /\ rCalls = m
         /\ rOutcome.st = "rejected"
         /\ rOutcome.val.type = "Error"
         /\ Contains(rOutcome.val.text, String(JsNumber(m)))
         /\ Contains(rOutcome.val.text, IF last.type = "Error" THEN last.text ELSE String(last))

RetryExhaustionWitness ==
  /\ ConfiguredRetries = 3
  /\ Len(rHistory) = 3
  /\ AllAttemptsFailed
  /\ rHistory[3].val = JsNumber(500)
  /\ rOutcome.st = "rejected"

\* the last failure as the terminal message words it
LastFailureText ==
  LET last == rHistory[Len(rHistory)].val
  IN  IF last.type = "Error" THEN last.text ELSE String(last)

\* C11: with maxRetries = 0, execute() invokes the unit of work exactly once, never
\* sleeps, and when that invocation fails rejects with the terminal Error.
RetryFloorAtZero ==
  rOptions.maxRetries = JsNumber(0) /\ rRuns >= 1 =>
    /\ rCalls = 1
    /\ rSleeps = 0
    /\ rpc # "sleep"
    /\ Len(rHistory) = 1 /\ rHistory[1].st = "rejected" =>
         /\ rOutcome.st = "rejected"
         /\ rOutcome.val.type = "Error"
         /\ Contains(rOutcome.val.text, "Max retries reached")
         /\ Contains(rOutcome.val.text, LastFailureText)

RetryFloorAtZeroWitness ==
  /\ rOptions.maxRetries = JsNumber(0)
  /\ rHistory = <<Rejected(JsString("fail"))>>
  /\ rOutcome.st = "rejected"

\* C12: whatever maxRetries is configured, execute() has invoked the unit of work at
\* least once when it settles.
TriesAtLeastOnce == rOutcome.st # "pending" => rCalls >= 1

\* C13: whenever execute() rejects, it rejects with the terminal Error made after a
\* failed invocation, never with undefined or the raw value of a failure.
SingleFailurePath ==
  rOutcome.st = "rejected" =>
    /\ rOutcome.val.type = "Error"
    /\ Len(rHistory) >= 1
    /\ Contains(rOutcome.val.text, "Max retries reached")
    /\ Contains(rOutcome.val.text, LastFailureText)

ConfiguredDelay == IF rOptions.delay.type = "number" THEN rOptions.delay.num ELSE 1500

\* C14: an invocation is made only after the one before it has ended and at least
\* `delay` milliseconds have passed since; at most one invocation is under way.
AttemptsSequentialAndSpaced ==
  /\ Len(rStarted) - Len(rEnded) \in {0, 1}
  /\ \A n \in 1..(Len(rStarted) - 1) :
       /\ rEnded[n] >= rStarted[n]
       /\ rStarted[n + 1] >= rEnded[n] + ConfiguredDelay

AttemptsSpacedWitness ==
  /\ rOptions.delay = JsNumber(2)
  /\ Len(rStarted) = 3
  /\ rEnded[1] > rStarted[1]
  /\ rStarted[2] = rEnded[1] + 2

(***************************************************************************)
(* Properties of the admission check                                       *)
(***************************************************************************)
LaunchTime(id) == launchLog[CHOOSE k \in DOMAIN launchLog : launchLog[k].id = id].t

Checked(id) == checks[id].at >= 0

\* C19: an entry whose admission check found the pruned log holding at least
\* maxRequests timestamps is not launched before the oldest of them plus the
\* interval; and on a limiter that starts fresh the (maxRequests + 1)-th launch comes
\* no earlier than the interval after the first entry's admission.
FullWindowDelays ==
  /\ \A id \in IDs :
       Launched(id) /\ checks[id].size >= checks[id].maxRequests =>
         LaunchTime(id) >= checks[id].oldest + checks[id].interval
  /\ Len(launchLog) >= MaxRequests(options) + 1 =>
       launchLog[MaxRequests(options) + 1].t
         >= checks[launchLog[1].id].at + Interval(options)

FullWindowDelaysWitness ==
  /\ options = [maxRequests |-> JsNumber(2), interval |-> JsNumber(2)]
  /\ nextId > 3 /\ Len(launchLog) >= 3
  /\ checks[3].at = 0 /\ checks[3].size = 2 /\ checks[3].oldest = 0
  /\ launchLog[3] = [id |-> 3, t |-> 2]

\* C20: an entry whose admission check found fewer than maxRequests timestamps in the
\* pruned log never waits on a timer, and its unit of work is launched at the time of
\* its dequeue.
NoDelayUnderCapacity ==
  \A id \in IDs :
    Checked(id) /\ checks[id].size < checks[id].maxRequests =>
      /\ \A L \in IDs : loops[L].cur = id => loops[L].pc # "slot"
      /\ Launched(id) => LaunchTime(id) = checks[id].at

NoDelayUnderCapacityWitness ==
  /\ Launched(2) /\ checks[2].maxRequests = 2 /\ checks[2].size = 1
  /\ checks[2].at > checks[1].at /\ LaunchTime(2) = checks[2].at

\* C18: with maxRequests zero, negative or omitted every admission check decides as
\* with maxRequests = 1: the entry waits exactly when the pruned log is not empty, then
\* until the oldest timestamp plus the interval, and is launched at once otherwise.
ClampedToOne ==
  \A id \in IDs :
    Checked(id) =>
      /\ checks[id].waited = (checks[id].size >= DEFAULT_MAX_REQUESTS)
      /\ Launched(id) =>
           LaunchTime(id) =
             IF checks[id].size >= DEFAULT_MAX_REQUESTS
             THEN checks[id].at
                    + SleepDuration(checks[id].oldest + checks[id].interval - checks[id].at)
             ELSE checks[id].at

(***************************************************************************)
(* Properties of the options                                               *)
(***************************************************************************)
\* what an admission check that read maxRequests = m and interval = i has to have
\* decided, and when its entry has to have been launched
DecidedUnder(id, m, i) ==
  /\ checks[id].maxRequests = m
  /\ checks[id].interval = i
  /\ checks[id].waited = (checks[id].size >= m)
  /\ Launched(id) =>
       LaunchTime(id) =
         IF checks[id].size >= m
         THEN checks[id].at + SleepDuration(checks[id].oldest + i - checks[id].at)
         ELSE checks[id].at

\* C15: a limiter built with {} and one built with {maxRequests: 1, interval: 1500}
\* decide every admission alike, as maxRequests 1 and interval 1500 prescribe; a Retry
\* built with no options and one built with {maxRetries: 1, delay: 1500} both run
\* execute() with one invocation, no delay, and the same outcome for the same result
\* of the unit of work.
DefaultsAsExplicit ==
  /\ options \in {NoOptions, ExplicitDefaults} /\ sets = <<>> =>
       \A id \in IDs : Checked(id) => DecidedUnder(id, 1, 1500)
  /\ rOptions \in {NoRetryOptions, ExplicitRetryDefaults} /\ rSets = <<>> /\ rRuns >= 1 =>
       /\ rLocal.maxRetries = 1 /\ rLocal.delay = 1500
       /\ rCalls = 1 /\ rSleeps = 0
       /\ rpc = "done" =>
            rOutcome = IF rHistory[1].st = "fulfilled"
                       THEN rHistory[1]
                       ELSE Rejected(JsError(TerminalMessage(1, rHistory[1].val)))

DefaultsAsExplicitWitness ==
  /\ options = NoOptions /\ sets = <<>>
  /\ Launched(2) /\ checks[2].waited /\ checks[2].interval = 1500
  /\ LaunchTime(2) = LaunchTime(1) + 1500

\* the entry is suspended in `await sleep(delay)` of waitForSlot()
WaitingForSlot(id) == \E L \in IDs : loops[L].pc = "slot" /\ loops[L].cur = id

\* C16 as claimed: once setOptions(p) was called, every entry not yet admitted is
\* admitted under p: the entries whose check comes after the call, and the entry that
\* is waiting for a slot.
SetOptionsReachesWaiting ==
  \A id \in IDs :
    Checked(id) =>
      /\ checks[id].epoch >= 1 =>
           DecidedUnder(id, MaxRequests(sets[checks[id].epoch]),
                        Interval(sets[checks[id].epoch]))
      /\ sets # <<>> /\ WaitingForSlot(id) =>
           DecidedUnder(id, MaxRequests(sets[Len(sets)]), Interval(sets[Len(sets)]))

\* C16 as amended: an entry whose admission check starts after setOptions(p) is
\* checked and launched under p (the latest p before its check); setOptions() leaves
\* alone the checks already made, the timer of the entry waiting for a slot, and the
\* launches.
SetOptionsForLaterChecks ==
  /\ [](\A id \in IDs :
         Checked(id) /\ checks[id].epoch >= 1 =>
           DecidedUnder(id, MaxRequests(sets[checks[id].epoch]),
                        Interval(sets[checks[id].epoch])))
  /\ [][sets' # sets => checks' = checks /\ loops' = loops /\ launchLog' = launchLog]_vars

SetOptionsForLaterChecksWitness ==
  /\ checks[1].maxRequests = 1 /\ checks[1].interval = 2
  /\ sets = <<[maxRequests |-> JsNumber(2), interval |-> JsUndefined]>>
  /\ checks[2].epoch = 1 /\ checks[2].size = 1 /\ ~checks[2].waited
  /\ Launched(2) /\ LaunchTime(2) < LaunchTime(1) + 2

\* C17: setOptions(p) makes the policy exactly p on both objects, so that a field absent
\* from p is read as its default by the next execute(), and on the limiter it leaves
\* the queue, the timestamp log and the drain flag as they were.
WholesaleReplace ==
  [][/\ sets' # sets =>
          /\ options' = sets'[Len(sets')]
          /\ UNCHANGED <<queues, requestTimes, executing>>
     /\ rSets' # rSets => rOptions' = rSets'[Len(rSets')]
     /\ rRuns' # rRuns /\ rSets # <<>> =>
          /\ rLocal'.delay = OrDefault(rSets[Len(rSets)].delay, RETRY_DEFAULT_DELAY)
          /\ rLocal'.maxRetries
               = OrDefault(rSets[Len(rSets)].maxRetries, DEFAULT_MAX_RETRIES)]_vars

WholesaleReplaceWitness ==
  /\ checks[1].interval = 2
  /\ sets = <<[maxRequests |-> JsNumber(2), interval |-> JsUndefined]>>
  /\ options.interval = JsUndefined
  /\ queues # <<>> /\ requestTimes # <<>> /\ executing

(***************************************************************************)
(* Properties of the timestamp log and the drain flag                      *)
(***************************************************************************)
\* C21 as claimed: in every state every timestamp t of the log has
\* now - interval <= t <= now.
LogInsideWindow ==
  \A k \in DOMAIN requestTimes :
    now - Interval(options) <= requestTimes[k] /\ requestTimes[k] <= now

\* C21 as amended: right after an admission check has pruned the log (and, when the
\* entry does not wait, appended to it) every timestamp t of the log has
\* now - interval < t <= now; between checks the log may hold older timestamps.
LogInsideWindowAfterPrune ==
  [][checks' # checks =>
       \A k \in DOMAIN requestTimes' :
         now - Interval(options) < requestTimes'[k] /\ requestTimes'[k] <= now]_vars

LogInsideWindowWitness ==
  /\ \E id \in IDs : checks[id].at = now /\ now > 0 /\ checks[id].size >= 1
  /\ \E L \in IDs : loops[L].pc \in {"slot", "admitted"} /\ checks[loops[L].cur].at = now
  /\ Len(launchLog) >= 2

BecomesAdmitted(L) == loops'[L].pc = "admitted" /\ loops[L].pc # "admitted"

\* C22: the timestamp appended for an entry is the clock value its admission check
\* read, also when the entry waited, so that a delayed entry's timestamp is its launch
\* time minus the delay; one timestamp is appended per entry and none otherwise.
StampIsCheckTime ==
  /\ [](\A id \in IDs :
         Launched(id) /\ checks[id].waited =>
           checks[id].at = LaunchTime(id)
             - SleepDuration(checks[id].oldest + checks[id].interval - checks[id].at))
  /\ [][/\ \A L \in IDs :
            BecomesAdmitted(L) =>
              /\ Len(requestTimes') >= 1
              /\ requestTimes'[Len(requestTimes')] = checks'[loops'[L].cur].at
              /\ loops[L].pc = "slot" =>
                   requestTimes' = Append(requestTimes, checks[loops[L].cur].at)
        /\ (\A L \in IDs : ~BecomesAdmitted(L)) =>
              Len(requestTimes') <= Len(requestTimes)
        /\ Len(requestTimes') <= Len(requestTimes) + 1]_vars

StampIsCheckTimeWitness ==
  \E L \in IDs :
    /\ loops[L].pc = "admitted" /\ checks[loops[L].cur].waited
    /\ checks[loops[L].cur].at < now
    /\ requestTimes[Len(requestTimes)] = checks[loops[L].cur].at

\* C23: whenever the drain flag is false the queue is empty and no entry is in its
\* admission check or running; the flag goes from true to false only in a step that
\* finds the queue empty and leaves it empty.
DrainFlagMatchesQueue ==
  /\ [](~executing => queues = <<>> /\ ActiveLoops = {})
  /\ [][executing /\ ~executing' => queues = <<>> /\ queues' = <<>>]_vars

DrainFlagMatchesQueueWitness ==
  ~executing /\ nextId = 3 /\ Len(launchLog) = 2 /\ queues = <<>>

\* C27: under a fixed policy with maxRequests = m >= 1 the log never holds more than
\* m + 1 timestamps, and right after the prune step of an admission check at most m.
LogLengthBounded ==
  /\ Len(requestTimes) <= MaxRequests(options) + 1
  /\ \A id \in IDs : Checked(id) => checks[id].size <= checks[id].maxRequests

LogLengthBoundedWitness ==
  /\ Len(requestTimes) = MaxRequests(options) + 1
  /\ \E id \in IDs : Checked(id) /\ checks[id].size = checks[id].maxRequests

\* C28: with maxRequests >= 1, an admission check that takes the waiting branch finds
\* the log non-empty and computes a delay with 0 < delay <= interval; the log is in
\* non-decreasing order, so that its first element is its minimum.
DelayWellFormed ==
  /\ \A id \in IDs :
       Checked(id) /\ checks[id].waited =>
         /\ checks[id].size >= 1
         /\ 0 < checks[id].oldest + checks[id].interval - checks[id].at
         /\ checks[id].oldest + checks[id].interval - checks[id].at <= checks[id].interval
  /\ \A j, k \in DOMAIN requestTimes : j < k => requestTimes[j] <= requestTimes[k]

DelayWellFormedWitness ==
  \E id \in IDs :
    /\ checks[id].waited /\ checks[id].interval = 2
    /\ checks[id].oldest + checks[id].interval - checks[id].at = 1
    /\ Len(requestTimes) >= 2 /\ requestTimes[1] < requestTimes[Len(requestTimes)]

(***************************************************************************)
(* Further properties of Retry                                             *)
(***************************************************************************)
\* C25: the suspension between a failed attempt and the next one lasts max(d, 0)
\* milliseconds for a configured delay d, and 1500 only when the delay is omitted.
DelayHonoured ==
  LET expected == IF rOptions.delay.type = "number"
                  THEN (IF rOptions.delay.num > 0 THEN rOptions.delay.num ELSE 0)
                  ELSE 1500
  IN  /\ \A n \in 1..(Len(rStarted) - 1) : rStarted[n + 1] = rEnded[n] + expected
      /\ rpc = "sleep" => rDue = rEnded[Len(rEnded)] + expected

\* C30: execute() reads maxRetries and delay once, when it is called: a setOptions()
\* call made while it is suspended changes nothing of the call in flight, whose
\* attempts, delays and terminal message follow the values read at its start; the
\* next execute() reads the options then in force.
ExecuteSnapshotsPolicy ==
  /\ [](rRuns >= 1 =>
         /\ rCalls <= rLocal.maxRetries
         /\ rSleeps <= rLocal.maxRetries - 1
         /\ rpc = "sleep" => rDue = rEnded[Len(rEnded)] + SleepDuration(rLocal.delay)
         /\ rpc = "done" /\ AllAttemptsFailed =>
              /\ Len(rHistory) = rLocal.maxRetries
              /\ rOutcome = Rejected(JsError(
                   TerminalMessage(rLocal.maxRetries, rHistory[Len(rHistory)].val))))
  /\ [][/\ rSets' # rSets =>
            UNCHANGED <<rLocal, rpc, rDue, rOutcome, rCalls, rSleeps, rHistory>>
        /\ rRuns' = rRuns =>
            rLocal'.delay = rLocal.delay /\ rLocal'.maxRetries = rLocal.maxRetries
        /\ rRuns' # rRuns =>
            /\ rLocal'.delay = OrDefault(rOptions.delay, RETRY_DEFAULT_DELAY)
            /\ rLocal'.maxRetries = OrDefault(rOptions.maxRetries, DEFAULT_MAX_RETRIES)]_vars

ExecuteSnapshotsPolicyWitness ==
  /\ rRuns = 1 /\ rpc = "sleep" /\ rLocal.maxRetries = 2 /\ rLocal.delay = 2
  /\ rSets = <<[maxRetries |-> JsUndefined, delay |-> JsNumber(1)]>>
  /\ rOptions = rSets[1]
  /\ rDue = rEnded[1] + 2

(***************************************************************************)
(* Properties of a batch                                                   *)
(***************************************************************************)
\* C24: of N units of instantaneous work submitted together to a fresh limiter with
\* maxRequests = m and interval = I, the unit at 0-based position i is launched no
\* later than (i \div m) * I after the submission, and the launches are in submission
\* order.
BatchProgress ==
  /\ \A id \in 1..(nextId - 1) :
       LET bound == ((id - 1) \div MaxRequests(options)) * Interval(options)
       IN  /\ Launched(id) => LaunchTime(id) <= bound
           /\ now > bound => Launched(id)
  /\ \A k \in DOMAIN launchLog : launchLog[k].id = k

BatchProgressWitness ==
  /\ options = [maxRequests |-> JsNumber(1), interval |-> JsNumber(2)]
  /\ nextId = 4 /\ Len(launchLog) = 3
  /\ launchLog[2].t = 2 /\ launchLog[3].t = 2

NestedWaitsForCaller ==
  /\ [](\A j \in IDs : nested[j].by # 0 =>
          /\ Launched(j) => WorkSettled(nested[j].by)
          /\ nested[j].awaited =>
               /\ work[nested[j].by].st = "running"
               /\ promise[j].st = "pending"
               /\ \A i \in IDs : i > nested[j].by => ~Launched(i))
  /\ [][nested' # nested =>
          /\ queues' = Append(queues, nextId)
          /\ loops' = loops
          /\ executing /\ executing']_vars

NestedWaitsForCallerWitness ==
  /\ nested[2] = [by |-> 1, awaited |-> FALSE] /\ Launched(2)
  /\ nested[3] = [by |-> 2, awaited |-> TRUE] /\ queues = <<3>>
  /\ work[2].st = "running" /\ now >= 2

====
